---- MODULE Spec2Model ----
(***************************************************************************)
(* State-machine model of the movie assistant: the query-intent parser     *)
(* (services/utils.py), ingestion and the self-healing index read path     *)
(* (services/ingest.py, services/rag.py) and the four agent tools          *)
(* (services/agents.py).                                                   *)
(*                                                                         *)
(* Text is a sequence of one-character strings.  Ratings are tenths of a   *)
(* point (7.0 is 70).  The Python value None is the empty tuple.           *)
(***************************************************************************)
EXTENDS Integers, Sequences, FiniteSets, TLC

None == << >>

\* ---------------------------------------------------------------- bounds
\* Longest text handed to parse_year_range on its own.
MaxLen == 5
\* Rows of the tables the statistics and quiz tools are run on.
NRows == 6
\* Chunks held by the vector index the search tools are run on.
NDocs == 7

\* ------------------------------------------------------------- characters
Digits == {"0", "1", "2", "3", "4", "5", "6", "7", "8", "9"}
LowerLetters == {"a", "b", "c", "d", "e", "f", "g", "h", "i", "j", "k", "l", "m",
                 "n", "o", "p", "q", "r", "s", "t", "u", "v", "w", "x", "y", "z"}
UpperLetters == {"A", "B", "C", "D", "E", "F", "G", "H", "I", "J", "K", "L", "M",
                 "N", "O", "P", "Q", "R", "S", "T", "U", "V", "W", "X", "Y", "Z"}

\* The regular-expression class \w, \d and \s on the characters of the model.
IsWordChar(c) == c \in Digits \cup LowerLetters \cup UpperLetters \cup {"_"}
IsDigit(c) == c \in Digits
IsSpace(c) == c \in {" ", "\n"}

DigitVal(c) ==
    CASE c = "0" -> 0 [] c = "1" -> 1 [] c = "2" -> 2 [] c = "3" -> 3
      [] c = "4" -> 4 [] c = "5" -> 5 [] c = "6" -> 6 [] c = "7" -> 7
      [] c = "8" -> 8 [] c = "9" -> 9

DigitChar(n) == CHOOSE c \in Digits : DigitVal(c) = n

\* int(s) of a string of decimal digits.
RECURSIVE ToInt(_)
ToInt(s) ==
    IF s = << >> THEN 0
    ELSE 10 * ToInt(SubSeq(s, 1, Len(s) - 1)) + DigitVal(s[Len(s)])

\* The assertion \b before position i of s (i in 1..Len(s)+1): exactly one of
\* the characters on its two sides is a word character.
WordBoundary(s, i) ==
    LET before == i > 1 /\ IsWordChar(s[i - 1])
        after == i <= Len(s) /\ IsWordChar(s[i])
    IN before # after

\* s[i..i+n-1] is n digits.
DigitsAt(s, i, n) ==
    /\ i + n - 1 <= Len(s)
    /\ \A k \in i .. i + n - 1 : IsDigit(s[k])

\* \s?\'?s\b matches s from position j, with w whitespace characters and
\* q apostrophes taken by the two optional items.
DecadeTail(s, j, w, q) ==
    /\ j + w + q <= Len(s)
    /\ w = 1 => IsSpace(s[j])
    /\ q = 1 => s[j + w] = "'"
    /\ s[j + w + q] = "s"
    /\ WordBoundary(s, j + w + q + 1)

\* \b(\d{2,4})\s?\'?s\b matches at position i with an n-digit group.
DecadeMatchAt(s, i, n) ==
    /\ WordBoundary(s, i)
    /\ DigitsAt(s, i, n)
    /\ \E w \in {0, 1}, q \in {0, 1} : DecadeTail(s, i + n, w, q)

\* \b(19\d{2}|20\d{2})\b matches at position i.
YearMatchAt(s, i) ==
    /\ WordBoundary(s, i)
    /\ DigitsAt(s, i, 4)
    /\ \/ s[i] = "1" /\ s[i + 1] = "9"
       \/ s[i] = "2" /\ s[i + 1] = "0"
    /\ WordBoundary(s, i + 4)

Min(S) == CHOOSE x \in S : \A y \in S : x <= y
Max(S) == CHOOSE x \in S : \A y \in S : x >= y

\* re.search returns the leftmost match; at one start the greedy {2,4} keeps
\* the longest digit group for which the rest of the pattern matches.
parse_year_range(query_lower) ==
    LET starts == {i \in 1 .. Len(query_lower) :
                      \E n \in 2 .. 4 : DecadeMatchAt(query_lower, i, n)}
        years == {i \in 1 .. Len(query_lower) : YearMatchAt(query_lower, i)}
    IN IF starts # {}
       THEN LET i == Min(starts)
                n == Max({m \in 2 .. 4 : DecadeMatchAt(query_lower, i, m)})
                digits == SubSeq(query_lower, i, i + n - 1)
                start_year == IF n = 2 THEN 1900 + ToInt(digits) ELSE ToInt(digits)
            IN <<start_year, start_year + 9>>
       ELSE IF years # {}
       THEN LET specific_year == ToInt(SubSeq(query_lower, Min(years), Min(years) + 3))
            IN <<specific_year, specific_year>>
       ELSE None

\* str.lower() of one character and of a text.
LowerChar(c) ==
    CASE c = "A" -> "a" [] c = "B" -> "b" [] c = "C" -> "c" [] c = "D" -> "d"
      [] c = "E" -> "e" [] c = "F" -> "f" [] c = "G" -> "g" [] c = "H" -> "h"
      [] c = "I" -> "i" [] c = "J" -> "j" [] c = "K" -> "k" [] c = "L" -> "l"
      [] c = "M" -> "m" [] c = "N" -> "n" [] c = "O" -> "o" [] c = "P" -> "p"
      [] c = "Q" -> "q" [] c = "R" -> "r" [] c = "S" -> "s" [] c = "T" -> "t"
      [] c = "U" -> "u" [] c = "V" -> "v" [] c = "W" -> "w" [] c = "X" -> "x"
      [] c = "Y" -> "y" [] c = "Z" -> "z" [] OTHER -> c

Lower(s) == [i \in 1 .. Len(s) |-> LowerChar(s[i])]

\* The Python test `needle in hay` on two texts.
Contains(hay, needle) ==
    \E i \in 1 .. Len(hay) - Len(needle) + 1 :
        SubSeq(hay, i, i + Len(needle) - 1) = needle

\* str.split(): the maximal runs of non-whitespace characters, in order.
RECURSIVE SplitWords(_)
SplitWords(s) ==
    IF s = << >> THEN << >>
    ELSE IF IsSpace(s[1]) THEN SplitWords(Tail(s))
    ELSE LET stops == {i \in 1 .. Len(s) : IsSpace(s[i])}
             n == IF stops = {} THEN Len(s) ELSE Min(stops) - 1
         IN <<SubSeq(s, 1, n)>> \o SplitWords(SubSeq(s, n + 1, Len(s)))

\* Length of a longest common subsequence of a and b, by rows of the usual
\* table: row[j + 1] is the length for the prefix of a read so far and b[1..j].
RECURSIVE LcsFill(_, _, _, _)
LcsFill(c, b, prev, cur) ==
    IF Len(cur) = Len(b) + 1 THEN cur
    ELSE LET j == Len(cur)
             cell == IF c = b[j] THEN prev[j] + 1
                     ELSE IF prev[j + 1] >= cur[j] THEN prev[j + 1] ELSE cur[j]
         IN LcsFill(c, b, prev, Append(cur, cell))

RECURSIVE LcsRows(_, _, _, _)
LcsRows(a, b, i, row) ==
    IF i > Len(a) THEN row[Len(b) + 1]
    ELSE LcsRows(a, b, i + 1, LcsFill(a[i], b, row, <<0>>))

LcsLen(a, b) == LcsRows(a, b, 1, [j \in 1 .. Len(b) + 1 |-> 0])

\* rapidfuzz's fuzz.ratio(a, b) > 80: the ratio is the normalised indel
\* similarity 100 * 2 * lcs / (len(a) + len(b)), and 100 for two empty texts.
FuzzRatioAbove80(a, b) ==
    IF Len(a) + Len(b) = 0 THEN TRUE
    ELSE 200 * LcsLen(a, b) > 80 * (Len(a) + Len(b))

genres ==
    << <<"a", "c", "t", "i", "o", "n">>, <<"a", "d", "v", "e", "n", "t", "u", "r", "e">>, <<"a", "n", "i", "m", "a", "t", "i", "o", "n">>, <<"b", "i", "o", "g", "r", "a", "p", "h", "y">>, <<"c", "o", "m", "e", "d", "y">>,
       <<"c", "r", "i", "m", "e">>, <<"d", "o", "c", "u", "m", "e", "n", "t", "a", "r", "y">>, <<"d", "r", "a", "m", "a">>, <<"f", "a", "n", "t", "a", "s", "y">>, <<"f", "a", "m", "i", "l", "y">>,
       <<"h", "i", "s", "t", "o", "r", "y">>, <<"h", "o", "r", "r", "o", "r">>, <<"m", "u", "s", "i", "c", "a", "l">>, <<"m", "y", "s", "t", "e", "r", "y">>, <<"r", "o", "m", "a", "n", "c", "e">>,
       <<"s", "c", "i", "-", "f", "i">>, <<"r", "e", "a", "l", "i", "t", "y", "-", "t", "v">> >>

parse_genre(query_lower) ==
    LET padded == <<" ">> \o query_lower \o <<" ">>
        exact == {g \in 1 .. Len(genres) :
                     Contains(padded, <<" ">> \o genres[g] \o <<" ">>)}
        words == SplitWords(query_lower)
        fuzzy == {p \in (1 .. Len(words)) \X (1 .. Len(genres)) :
                     FuzzRatioAbove80(genres[p[2]], words[p[1]])}
        first == CHOOSE p \in fuzzy :
                     \A r \in fuzzy : p[1] < r[1] \/ (p[1] = r[1] /\ p[2] <= r[2])
    IN IF Contains(query_lower, <<"s", "c", "i", "f", "i">>) THEN <<"s", "c", "i", "-", "f", "i">>
       ELSE IF exact # {} THEN genres[Min(exact)]
       ELSE IF fuzzy # {} THEN genres[first[2]]
       ELSE None

\* re.sub(r'(?<=[a-z])(?=[A-Z])', ', ', text): ", " goes in at every place
\* where a lower-case letter is followed by an upper-case one.
RECURSIVE clean_mashed_names(_)
clean_mashed_names(text) ==
    IF Len(text) <= 1 THEN text
    ELSE IF text[1] \in LowerLetters /\ text[2] \in UpperLetters
    THEN <<text[1], ",", " ">> \o clean_mashed_names(Tail(text))
    ELSE <<text[1]>> \o clean_mashed_names(Tail(text))

FirstCommaField_last(text) ==
    LET commas == {i \in 1 .. Len(text) : text[i] = ","}
    IN IF commas = {} THEN text ELSE SubSeq(text, Max(commas) + 1, Len(text))

\* text.split(',')[0]: what precedes the first comma.
FirstCommaField(text) ==
    LET commas == {i \in 1 .. Len(text) : text[i] = ","}
    IN IF commas = {} THEN text ELSE SubSeq(text, 1, Min(commas) - 1)

\* ---------------------------------------------------------------- queries
\* The queries the statistics tool is called with.
StatsQueries ==
    { <<"A", "v", "e", "r", "a", "g", "e", " ", "9", "0", "s", " ", "a", "c", "t", "i", "o", "n">>, <<"T", "o", "p", " ", "9", "0", "s", " ", "a", "c", "t", "i", "o", "n">>, <<"b", "e", "s", "t", " ", "d", "r", "a", "m", "a">>,
      <<"h", "o", "w", " ", "m", "a", "n", "y", " ", "a", "c", "t", "i", "o", "n">>, <<"a", "v", "e", "r", "a", "g", "e">>, <<"h", "i", "g", "h", "e", "s", "t", " ", "r", "a", "t", "e", "d">>, <<"t", "o", "p", " ", "a", "v", "e", "r", "a", "g", "e">>,
      <<"a", "v", "e", "r", "a", "g", "e", " ", "1", "8", "0", "0", "s", " ", "h", "o", "r", "o", "r">>, <<"c", "o", "u", "n", "t", " ", "2", "0", "0", "5">> }

\* The queries the search tool is called with.
SearchQueries ==
    { <<"9", "0", "s", " ", "A", "c", "t", "i", "o", "n", " ", "m", "o", "v", "i", "e", "s">>, <<"a", "c", "t", "i", "o", "n">>, <<"m", "o", "v", "i", "e", "s", " ", "f", "r", "o", "m", " ", "1", "9", "9", "5">>, <<"g", "o", "o", "d", " ", "f", "i", "l", "m", "s">> }

Queries == StatsQueries \cup SearchQueries

\* query_lower, parse_year_range(query_lower) and parse_genre(query_lower) of
\* each modelled query, as the first lines of the two query tools compute them.
Parsed ==
    [q \in Queries |->
        [query_lower |-> Lower(q),
         year_range |-> parse_year_range(Lower(q)),
         genre_filter |-> parse_genre(Lower(q))]]

\* -------------------------------------------------------------- documents
\* A year that int() rejects (make_description then writes "Unknown"); as
\* NaN does, it fails every >= and <= comparison with a real year.
NoYear == -1

RECURSIVE IntText(_)
IntText(n) ==
    IF n < 10 THEN <<DigitChar(n)>> ELSE IntText(n \div 10) \o <<DigitChar(n % 10)>>

\* The description of a row, as its lines.  The Rating, Duration, Certificate
\* and MetaScore lines, which no tool reads, are left out.
make_description(row) ==
    << <<"T", "i", "t", "l", "e", ":", " ">> \o row.title,
       <<"Y", "e", "a", "r", ":", " ">> \o (IF row.year = NoYear THEN <<"U", "n", "k", "n", "o", "w", "n">> ELSE IntText(row.year)),
       <<"G", "e", "n", "r", "e", ":", " ">> \o row.genre,
       <<"D", "i", "r", "e", "c", "t", "o", "r", ":", " ">> \o row.director,
       <<"C", "a", "s", "t", ":", " ">> \o row.cast >>

\* Document(page_content=row['description'], metadata={'title': row['title']}).
Document(row) == [page_content |-> make_description(row), title |-> row.title]

\* The documents ingest_movies hands to create_vector_db, one per row.
Documents(rows) == [i \in 1 .. Len(rows) |-> Document(rows[i])]

\* re.search(r'Year: (\d{4})', page_content): the number of the first
\* "Year: NNNN" marker of the text, NoYear when it has none.
YearMarkersOf(line) ==
    {i \in 1 .. Len(line) - 9 :
        SubSeq(line, i, i + 5) = <<"Y", "e", "a", "r", ":", " ">> /\ DigitsAt(line, i + 6, 4)}

DocYear(page_content) ==
    LET lines == {l \in 1 .. Len(page_content) : YearMarkersOf(page_content[l]) # {}}
    IN IF lines = {} THEN NoYear
       ELSE LET line == page_content[Min(lines)]
                i == Min(YearMarkersOf(line))
            IN ToInt(SubSeq(line, i + 6, i + 9))

\* genre_filter in doc.page_content.lower()
DocHasGenre(page_content, genre_filter) ==
    \E l \in 1 .. Len(page_content) : Contains(Lower(page_content[l]), genre_filter)

\* ------------------------------------------------------------------ state
VARIABLES
    text,         \* the text handed to parse_year_range
    csv,          \* local_data/movies.csv
    cache,        \* local_data/processed_movies.pkl
    index,        \* local_data/faiss_index
    agents,       \* services.agents: not imported, imported, or import raised
    df,           \* agents.df, the global data cache
    vectorstore,  \* agents.vectorstore, the loaded index
    pc,           \* position of the running call
    call,         \* the last ingest_movies / get_vector_store call: what it found and did
    query,        \* argument of the running tool call
    loop,         \* locals of the running search / recommendation loop
    answer        \* what the last call returned or raised

vars == <<text, csv, cache, index, agents, df, vectorstore,
          pc, call, query, loop, answer>>

\* The FAISS store: the chunks it holds.  Every modelled description is
\* shorter than chunk_size = 250, so a document is one chunk.
NoStore == [loaded |-> FALSE, docs |-> << >>]
Store(docs) == [loaded |-> TRUE, docs |-> docs]

\* A file of local_data: absent, written in part, or whole with its content.
NoFile == [state |-> "absent", content |-> << >>]
PartFile == [state |-> "partial", content |-> << >>]
File(content) == [state |-> "valid", content |-> content]

\* A movies.csv that lacks the Title column: reading it succeeds and
\* make_description raises KeyError on its first row.
BadCsv == [state |-> "malformed", content |-> << >>]

\* os.path.exists(path)
Exists(file) == file.state # "absent"

\* `df = None` at agents.py:14; a loaded table is the sequence of its rows.
NoTable == [loaded |-> FALSE, rows |-> << >>]
Table(rows) == [loaded |-> TRUE, rows |-> rows]

NoAnswer == [kind |-> "none"]

\* --------------------------------------------------- get_movie_statistics
\* table[mask]: the rows of a table whose mask entry is true, in table order.
RECURSIVE KeepRows(_, _)
KeepRows(rows, mask) ==
    IF rows = << >> THEN << >>
    ELSE (IF Head(mask) THEN <<Head(rows)>> ELSE << >>)
         \o KeepRows(Tail(rows), Tail(mask))

RECURSIVE SumRating(_)
SumRating(rows) ==
    IF rows = << >> THEN 0 ELSE Head(rows).rating + SumRating(Tail(rows))

\* Series.mean(): NaN for an empty column, else the exact quotient sum / n,
\* kept as the pair <<sum, n>>.
MeanRating(rows) ==
    IF rows = << >> THEN "nan" ELSE <<SumRating(rows), Len(rows)>>

\* DataFrame.nlargest(n, 'rating') with the default keep='first': the n rows
\* of greatest rating in descending order, equal ratings in table order.
RECURSIVE nlargest_keep_last(_, _)
nlargest_keep_last(n, rows) ==
    IF n = 0 \/ rows = << >> THEN << >>
    ELSE LET best == Max({rows[i].rating : i \in 1 .. Len(rows)})
             at == Max({i \in 1 .. Len(rows) : rows[i].rating = best})
             rest == SubSeq(rows, 1, at - 1) \o SubSeq(rows, at + 1, Len(rows))
         IN <<rows[at]>> \o nlargest_keep_last(n - 1, rest)

RECURSIVE nlargest(_, _)
nlargest(n, rows) ==
    IF n = 0 \/ rows = << >> THEN << >>
    ELSE LET best == Max({rows[i].rating : i \in 1 .. Len(rows)})
             at == Min({i \in 1 .. Len(rows) : rows[i].rating = best})
             rest == SubSeq(rows, 1, at - 1) \o SubSeq(rows, at + 1, Len(rows))
         IN <<rows[at]>> \o nlargest(n - 1, rest)

StatsMode(query_lower) ==
    IF Contains(query_lower, <<"a", "v", "e", "r", "a", "g", "e">>) THEN "average"
    ELSE IF \/ Contains(query_lower, <<"h", "i", "g", "h", "e", "s", "t">>)
            \/ Contains(query_lower, <<"b", "e", "s", "t">>)
            \/ Contains(query_lower, <<"t", "o", "p">>) THEN "top"
    ELSE "count"

StatsSubset(table, genre_filter, yr) ==
    LET byGenre == IF genre_filter = None THEN table
                   ELSE KeepRows(table, [i \in 1 .. Len(table) |->
                            Contains(Lower(table[i].genre), genre_filter)])
    IN IF yr = None THEN byGenre
       ELSE KeepRows(byGenre, [i \in 1 .. Len(byGenre) |->
                byGenre[i].year >= yr[1] /\ byGenre[i].year <= yr[2]])

\* The [['title', 'rating', 'year']] projection of the rows.
StatsColumns(rows) ==
    [i \in 1 .. Len(rows) |->
        [title |-> rows[i].title, rating |-> rows[i].rating, year |-> rows[i].year]]

StatsAnswer(mode, subset) ==
    IF mode = "average"
    THEN [kind |-> "average", avg |-> MeanRating(subset), n |-> Len(subset)]
    ELSE IF mode = "top"
    THEN [kind |-> "top", rows |-> StatsColumns(nlargest(5, subset))]
    ELSE [kind |-> "count", n |-> Len(subset)]

get_movie_statistics(table, q) ==
    IF ~table.loaded THEN [kind |-> "error", msg |-> "Error: Data cache not loaded."]
    ELSE StatsAnswer(StatsMode(Parsed[q].query_lower),
                     StatsSubset(table.rows, Parsed[q].genre_filter,
                                 Parsed[q].year_range))

\* ---------------------------------------------------- generate_movie_quiz
QuizPool(table) ==
    KeepRows(table, [i \in 1 .. Len(table) |->
                        table[i].rating >= 70 /\ table[i].year >= 2000])

\* pick is the row pool.sample(1) draws, coin is random.choice([True, False]).
generate_movie_quiz(table, pick, coin) ==
    IF ~table.loaded THEN [kind |-> "error", msg |-> "Error: Data not loaded."]
    ELSE IF Len(QuizPool(table.rows)) < 5
    THEN [kind |-> "error", msg |-> "Not enough data for a quiz."]
    ELSE LET movie == QuizPool(table.rows)[pick]
         IN IF coin
            THEN [kind |-> "director", movie |-> movie, key |-> movie.director]
            ELSE [kind |-> "actor", movie |-> movie,
                  key |-> FirstCommaField(clean_mashed_names(movie.cast))]

\* ------------------------------------------------- ingestion and the index
\* Where a call can fail for reasons outside the program: to_pickle or
\* save_local stopping part-way (both write straight to the final path), or
\* the embedding step raising before anything is written.
Faults == {"none", "to_pickle", "embed", "save_local"}

NoWork == [csv_reads |-> 0, descriptions |-> 0, cache_writes |-> 0,
           builds |-> 0, ingest_calls |-> 0, loads |-> 0]

NoCall == [op |-> "none"]

\* create_vector_db(documents): chunk, embed, build, save_local(INDEX_PATH).
create_vector_db(documents, fault) ==
    IF fault = "embed" THEN [index |-> NoFile, outcome |-> "raised"]
    ELSE IF fault = "save_local" THEN [index |-> PartFile, outcome |-> "raised"]
    ELSE [index |-> File(documents), outcome |-> "returned"]

\* Phase 1 of ingest_movies: the table, from the cache or from the raw CSV.
\* df is the table in hand when the phase goes on to phase 2.
LoadData(files, fault) ==
    IF Exists(files.cache)
    THEN IF files.cache.state = "valid"
         THEN [cache |-> files.cache, df |-> Table(files.cache.content),
               outcome |-> "go_on", work |-> NoWork]
         ELSE [cache |-> files.cache, df |-> NoTable,
               outcome |-> "raised", work |-> NoWork]
    ELSE IF files.csv.state = "absent"
    THEN [cache |-> files.cache, df |-> NoTable, outcome |-> "returned",
          work |-> [NoWork EXCEPT !.csv_reads = 1]]
    ELSE IF files.csv.state = "malformed"
    THEN [cache |-> files.cache, df |-> NoTable, outcome |-> "returned",
          work |-> [NoWork EXCEPT !.csv_reads = 1, !.descriptions = 1]]
    ELSE IF fault = "to_pickle"
    THEN [cache |-> PartFile, df |-> NoTable, outcome |-> "returned",
          work |-> [NoWork EXCEPT !.csv_reads = 1, !.descriptions = 1,
                                  !.cache_writes = 1]]
    ELSE [cache |-> File(files.csv.content), df |-> Table(files.csv.content),
          outcome |-> "go_on",
          work |-> [NoWork EXCEPT !.csv_reads = 1, !.descriptions = 1,
                                  !.cache_writes = 1]]

HandOff_always_builds(files, loaded, fault) ==
    LET built == create_vector_db(Documents(loaded.df.rows), fault)
    IN [index |-> built.index, outcome |-> built.outcome, builds |-> 1]

\* Phase 2 of ingest_movies: hand the documents to create_vector_db unless
\* the index is there.
HandOff(files, loaded, fault) ==
    IF Exists(files.index)
    THEN [index |-> files.index, outcome |-> "returned", builds |-> 0]
    ELSE LET built == create_vector_db(Documents(loaded.df.rows), fault)
         IN [index |-> built.index, outcome |-> built.outcome, builds |-> 1]

ingest_movies(files, fault) ==
    LET loaded == LoadData(files, fault)
        handed == HandOff(files, loaded, fault)
    IN IF loaded.outcome # "go_on"
       THEN [cache |-> loaded.cache, index |-> files.index,
             outcome |-> loaded.outcome,
             work |-> [loaded.work EXCEPT !.ingest_calls = 1]]
       ELSE [cache |-> loaded.cache, index |-> handed.index,
             outcome |-> handed.outcome,
             work |-> [loaded.work EXCEPT !.ingest_calls = 1,
                                          !.builds = handed.builds]]

load_local_unchecked(found) ==
    [store |-> Store(found.content), outcome |-> "returned"]

\* FAISS.load_local(INDEX_PATH, ...): raises unless the index is whole.
load_local(found) ==
    IF found.state = "valid"
    THEN [store |-> Store(found.content), outcome |-> "returned"]
    ELSE [store |-> NoStore, outcome |-> "raised"]

\* get_vector_store(): ingest when the index is missing, then load it.
get_vector_store(files, fault) ==
    LET ingested == IF Exists(files.index)
                    THEN [cache |-> files.cache, index |-> files.index,
                          outcome |-> "returned", work |-> NoWork]
                    ELSE ingest_movies(files, fault)
        loaded == load_local(ingested.index)
    IN IF ingested.outcome = "raised"
       THEN [cache |-> ingested.cache, index |-> ingested.index,
             store |-> NoStore, outcome |-> "raised", work |-> ingested.work]
       ELSE [cache |-> ingested.cache, index |-> ingested.index,
             store |-> loaded.store, outcome |-> loaded.outcome,
             work |-> [ingested.work EXCEPT !.loads = 1]]

\* ------------------------------------------------ tool calls on the table
\* Titles of the modelled tables: row i is called Ti.
RowTitle(i) == <<"T", DigitChar(i)>>

Row(i, y, g, r, d, c) ==
    [title |-> RowTitle(i), year |-> y, genre |-> g, rating |-> r,
     director |-> d, cast |-> c]

\* What a row of a statistics table can hold besides its title.
StatsKinds ==
    { [year |-> 1995, genre |-> <<"A", "c", "t", "i", "o", "n">>, rating |-> 80],
      [year |-> 1999, genre |-> <<"A", "c", "t", "i", "o", "n", ",", " ", "D", "r", "a", "m", "a">>, rating |-> 90],
      [year |-> 2005, genre |-> <<"D", "r", "a", "m", "a">>, rating |-> 90] }

StatsTables ==
    UNION { { [i \in 1 .. n |-> Row(i, k[i].year, k[i].genre, k[i].rating,
                                    <<"M", "a", "n", "n">>, <<"A", "l", " ", "P", "o", "B", "o", " ", "D", "u">>)] :
                k \in [1 .. n -> StatsKinds] } : n \in {0, NRows} }

\* What a row of a quiz table can hold besides its title.
QuizKinds ==
    { [year |-> 2010, rating |-> 85, director |-> <<"N", "o", "l", "a", "n">>, cast |-> <<"A", "l", " ", "P", "o", "B", "o", " ", "D", "u">>],
      [year |-> 2000, rating |-> 70, director |-> <<"M", "a", "n", "n">>, cast |-> <<"J", "o", " ", "M", "c", "G", "e", "e", ",", "A", "l", " ", "P", "o">>],
      [year |-> 2010, rating |-> 69, director |-> <<"B", "a", "y">>, cast |-> <<"B", "o", " ", "D", "u", ",", "A", "l", " ", "P", "o">>],
      [year |-> 1999, rating |-> 90, director |-> <<"M", "a", "n", "n">>, cast |-> <<"A", "l", " ", "P", "o">>] }

QuizTables ==
    { [i \in 1 .. NRows |-> Row(i, k[i].year, <<"D", "r", "a", "m", "a">>, k[i].rating,
                                k[i].director, k[i].cast)] :
        k \in [1 .. NRows -> QuizKinds] }

\* The variables a specification does not use stay at these values.
IdleParser == text = << >>
IdleFiles == csv = NoFile /\ cache = NoFile /\ index = NoFile
IdleCall == pc = "idle" /\ call = NoCall /\ loop = << >>

\* A call of the statistics tool with query q.
Statistics(q) ==
    /\ pc = "idle"
    /\ agents = "imported"
    /\ query' = q
    /\ answer' = get_movie_statistics(df, q)
    /\ UNCHANGED <<text, csv, cache, index, agents, df, vectorstore,
                   pc, call, loop>>

\* A call of the quiz tool; its argument is not read.
Quiz(pick, coin) ==
    /\ pc = "idle"
    /\ agents = "imported"
    /\ pick \in 1 .. Max({1, Len(QuizPool(df.rows))})
    /\ query' = << >>
    /\ answer' = generate_movie_quiz(df, pick, coin)
    /\ UNCHANGED <<text, csv, cache, index, agents, df, vectorstore,
                   pc, call, loop>>

InitStats ==
    /\ IdleParser /\ IdleFiles /\ IdleCall
    /\ agents = "imported"
    /\ df \in {NoTable} \cup {Table(t) : t \in StatsTables}
    /\ vectorstore = NoStore
    /\ query = << >>
    /\ answer = NoAnswer

NextStats == \E q \in StatsQueries : Statistics(q)

SpecStats == InitStats /\ [][NextStats]_vars

InitQuiz ==
    /\ IdleParser /\ IdleFiles /\ IdleCall
    /\ agents = "imported"
    /\ df \in {NoTable} \cup {Table(t) : t \in QuizTables}
    /\ vectorstore = NoStore
    /\ query = << >>
    /\ answer = NoAnswer

NextQuiz == \E pick \in 1 .. NRows + 1, coin \in BOOLEAN : Quiz(pick, coin)

SpecQuiz == InitQuiz /\ [][NextQuiz]_vars

\* ------------------------------------------------- tool calls on the index
\* The rows behind the chunks of the modelled indexes.
Catalogue ==
    << Row(1, 1995, <<"A", "c", "t", "i", "o", "n">>, 80, <<"M", "a", "n", "n">>, <<"A", "l", " ", "P", "o">>),
       Row(1, 2005, <<"A", "c", "t", "i", "o", "n">>, 60, <<"B", "a", "y">>, <<"B", "o", " ", "D", "u">>),
       Row(2, NoYear, <<"A", "c", "t", "i", "o", "n">>, 70, <<"M", "a", "n", "n">>, <<"A", "l", " ", "P", "o">>),
       Row(3, 1995, <<"D", "r", "a", "m", "a">>, 90, <<"N", "o", "l", "a", "n">>, <<"B", "o", " ", "D", "u">>),
       Row(4, 1999, <<"A", "c", "t", "i", "o", "n", ",", " ", "D", "r", "a", "m", "a">>, 85, <<"M", "a", "n", "n">>, <<"A", "l", " ", "P", "o">>),
       Row(5, 1990, <<"A", "c", "t", "i", "o", "n">>, 75, <<"B", "a", "y">>, <<"B", "o", " ", "D", "u">>),
       Row(6, 1991, <<"A", "c", "t", "i", "o", "n">>, 65, <<"B", "a", "y">>, <<"A", "l", " ", "P", "o">>),
       Row(7, 1992, <<"A", "c", "t", "i", "o", "n">>, 72, <<"N", "o", "l", "a", "n">>, <<"B", "o", " ", "D", "u">>),
       Row(8, 1993, <<"A", "c", "t", "i", "o", "n">>, 88, <<"M", "a", "n", "n">>, <<"A", "l", " ", "P", "o">>),
       Row(8, 1994, <<"A", "c", "t", "i", "o", "n">>, 50, <<"B", "a", "y">>, <<"B", "o", " ", "D", "u">>),
       Row(9, 2001, <<"C", "o", "m", "e", "d", "y">>, 77, <<"N", "o", "l", "a", "n">>, <<"A", "l", " ", "P", "o">>) >>

\* The chunks of a modelled index: n consecutive rows of the catalogue, from
\* its first row (two chunks share a title) or from its third.
IndexedDocs(from, n) == Documents(SubSeq(Catalogue, from, from + n - 1))

Stores == {Store(IndexedDocs(from, n)) : from \in {1, 3}, n \in 0 .. NDocs}

\* similarity_search(text, k) returns min(k, size of the store) distinct
\* chunks in an order the embedding decides: the loops below draw the next
\* chunk from those not yet returned.

\* The text search_movies returns for the chunks it kept.
SearchAnswer(filtered) ==
    IF filtered = << >>
    THEN [kind |-> "none_found",
          msg |-> "No movies found matching those specific criteria."]
    ELSE [kind |-> "found", entries |-> filtered]

\* search_movies(query) up to its loop: the guard, the parse and the search.
SearchStart(q) ==
    /\ pc = "idle"
    /\ agents = "imported"
    /\ query' = q
    /\ IF ~vectorstore.loaded
       THEN /\ answer' = [kind |-> "error",
                          msg |-> "Error: Database is initializing, please try again."]
            /\ UNCHANGED <<pc, loop>>
       ELSE IF vectorstore.docs = << >>
       THEN /\ answer' = SearchAnswer(<< >>)
            /\ UNCHANGED <<pc, loop>>
       ELSE /\ pc' = "search"
            /\ loop' = [rest |-> DOMAIN vectorstore.docs, n |-> 0,
                        filtered |-> << >>, seen_titles |-> {}]
            /\ answer' = NoAnswer
    /\ UNCHANGED <<text, csv, cache, index, agents, df, vectorstore, call>>

\* The body of the loop for one chunk: TRUE when the chunk is kept.
SearchKeeps(doc, seen_titles, yr, genre_filter) ==
    /\ doc.title \notin seen_titles
    /\ yr = None \/ DocYear(doc.page_content) = NoYear
          \/ (yr[1] <= DocYear(doc.page_content) /\ DocYear(doc.page_content) <= yr[2])
    /\ genre_filter = None \/ DocHasGenre(doc.page_content, genre_filter)

\* One turn of the loop of search_movies on the next chunk d of the results,
\* and the return when that turn is the last.
SearchStep(d) ==
    /\ pc = "search"
    /\ d \in loop.rest
    /\ LET doc == vectorstore.docs[d]
           keep == SearchKeeps(doc, loop.seen_titles,
                               Parsed[query].year_range, Parsed[query].genre_filter)
           filtered == IF keep THEN Append(loop.filtered, doc) ELSE loop.filtered
           seen_titles == IF keep THEN loop.seen_titles \cup {doc.title}
                          ELSE loop.seen_titles
           last == \/ keep /\ Len(filtered) >= 5
                   \/ loop.rest = {d}
                   \/ loop.n + 1 >= 30
       IN IF last
          THEN /\ answer' = SearchAnswer(filtered)
               /\ pc' = "idle"
               /\ loop' = << >>
          ELSE /\ loop' = [rest |-> loop.rest \ {d}, n |-> loop.n + 1,
                           filtered |-> filtered, seen_titles |-> seen_titles]
               /\ UNCHANGED <<pc, answer>>
    /\ UNCHANGED <<text, csv, cache, index, agents, df, vectorstore,
                   call, query>>

\* The titles recommend_similar_movies is asked about.
Wanted == { <<"H", "e", "a", "t">> }

RecommendAnswer(ref, listed) == [kind |-> "similar", ref |-> ref, entries |-> listed]

\* recommend_similar_movies(movie_title) up to its loop: the guard, the lookup
\* of the reference chunk r (k = 1) and the search for its neighbours.
RecommendStart(movie_title, r) ==
    /\ pc = "idle"
    /\ agents = "imported"
    /\ query' = movie_title
    /\ IF ~vectorstore.loaded
       THEN /\ answer' = [kind |-> "error", msg |-> "Error: Database not loaded."]
            /\ UNCHANGED <<pc, loop>>
       ELSE IF vectorstore.docs = << >>
       THEN /\ answer' = [kind |-> "not_found", title |-> movie_title]
            /\ UNCHANGED <<pc, loop>>
       ELSE /\ r \in DOMAIN vectorstore.docs
            /\ pc' = "recommend"
            /\ loop' = [ref |-> vectorstore.docs[r], rest |-> DOMAIN vectorstore.docs,
                        n |-> 0, listed |-> << >>, seen |-> {},
                        count |-> 0]
            /\ answer' = NoAnswer
    /\ UNCHANGED <<text, csv, cache, index, agents, df, vectorstore, call>>

RecommendSkips_seen_only(title, ref_title, seen) == title \in seen

RecommendSkips(title, ref_title, seen) == title = ref_title \/ title \in seen

\* The line the loop adds to the output for the chunk it lists, with the
\* place at of that chunk among the neighbours.
RecommendAdd(listed, doc, at) == Append(listed, [doc |-> doc, at |-> at])

\* One turn of the loop of recommend_similar_movies on the next neighbour d,
\* and the return when that turn is the last.
RecommendStep(d) ==
    /\ pc = "recommend"
    /\ d \in loop.rest
    /\ LET doc == vectorstore.docs[d]
           skip == RecommendSkips(doc.title, loop.ref.title, loop.seen)
           listed == IF skip THEN loop.listed
                     ELSE RecommendAdd(loop.listed, doc, loop.n + 1)
           seen == IF skip THEN loop.seen ELSE loop.seen \cup {doc.title}
           count == IF skip THEN loop.count ELSE loop.count + 1
           last == \/ ~skip /\ count >= 5
                   \/ loop.rest = {d}
                   \/ loop.n + 1 >= 10
       IN IF last
          THEN /\ answer' = RecommendAnswer(loop.ref, listed)
               /\ pc' = "idle"
               /\ loop' = << >>
          ELSE /\ loop' = [loop EXCEPT !.rest = loop.rest \ {d}, !.n = loop.n + 1,
                                       !.listed = listed,
                                       !.seen = seen, !.count = count]
               /\ UNCHANGED <<pc, answer>>
    /\ UNCHANGED <<text, csv, cache, index, agents, df, vectorstore,
                   call, query>>

InitIndexed ==
    /\ IdleParser /\ IdleFiles /\ IdleCall
    /\ agents = "imported"
    /\ df = NoTable
    /\ vectorstore \in Stores
    /\ query = << >>
    /\ answer = NoAnswer

NextSearch ==
    \/ \E q \in SearchQueries : SearchStart(q)
    \/ \E d \in 1 .. NDocs : SearchStep(d)

SpecSearch == InitIndexed /\ [][NextSearch]_vars

NextRecommend ==
    \/ \E t \in Wanted, r \in 1 .. NDocs : RecommendStart(t, r)
    \/ \E d \in 1 .. NDocs : RecommendStep(d)

SpecRecommend == InitIndexed /\ [][NextRecommend]_vars

\* ------------------------------------------------------ the running system
Files == [csv |-> csv, cache |-> cache, index |-> index]

\* What a call found on disk, for the record of the call.
Found == [cache |-> cache, index |-> index]

\* `python -m services.ingest`: ingest_movies() on its own.
Ingest(fault) ==
    /\ pc = "idle"
    /\ LET done == ingest_movies(Files, fault)
       IN /\ cache' = done.cache
          /\ index' = done.index
          /\ call' = [op |-> "ingest_movies", found |-> Found,
                      outcome |-> done.outcome, work |-> done.work,
                      store |-> NoStore]
    /\ UNCHANGED <<text, csv, agents, df, vectorstore, pc, query, loop, answer>>

\* `python -m services.rag`: get_rag_chain() calls get_vector_store() and
\* the test block catches what it raises.
GetVectorStore(fault) ==
    /\ pc = "idle"
    /\ LET done == get_vector_store(Files, fault)
       IN /\ cache' = done.cache
          /\ index' = done.index
          /\ call' = [op |-> "get_vector_store", found |-> Found,
                      outcome |-> done.outcome, work |-> done.work,
                      store |-> done.store]
    /\ UNCHANGED <<text, csv, agents, df, vectorstore, pc, query, loop, answer>>

\* The import of services.agents: df from the cache when it is there, then
\* vectorstore = get_vector_store().
ImportAgents(fault) ==
    /\ pc = "idle"
    /\ agents = "not_imported"
    /\ LET done == get_vector_store(Files, fault)
           df_read == IF cache.state = "valid" THEN Table(cache.content) ELSE NoTable
       IN IF cache.state = "partial"
          THEN /\ agents' = "import_raised"
               /\ call' = NoCall
               /\ UNCHANGED <<cache, index, df, vectorstore>>
          ELSE /\ cache' = done.cache
               /\ index' = done.index
               /\ call' = [op |-> "get_vector_store", found |-> Found,
                           outcome |-> done.outcome, work |-> done.work,
                           store |-> done.store]
               /\ IF done.outcome = "raised"
                  THEN agents' = "import_raised" /\ UNCHANGED <<df, vectorstore>>
                  ELSE /\ agents' = "imported"
                       /\ df' = df_read
                       /\ vectorstore' = done.store
    /\ answer' = NoAnswer
    /\ UNCHANGED <<text, csv, pc, query, loop>>

\* The process ends; the next one starts with nothing imported.
Restart ==
    /\ pc = "idle"
    /\ agents # "not_imported"
    /\ agents' = "not_imported"
    /\ df' = NoTable
    /\ vectorstore' = NoStore
    /\ query' = << >>
    /\ answer' = NoAnswer
    /\ call' = NoCall
    /\ UNCHANGED <<text, csv, cache, index, pc, loop>>

\* The operator deletes the cache file (this is how the table is invalidated).
DeleteCache ==
    /\ pc = "idle"
    /\ Exists(cache)
    /\ cache' = NoFile
    /\ call' = NoCall
    /\ UNCHANGED <<text, csv, index, agents, df, vectorstore, pc, query, loop, answer>>

\* The operator deletes the index directory (this is how a rebuild is asked for).
DeleteIndex ==
    /\ pc = "idle"
    /\ Exists(index)
    /\ index' = NoFile
    /\ call' = NoCall
    /\ UNCHANGED <<text, csv, cache, agents, df, vectorstore, pc, query, loop, answer>>

\* The raw tables the modelled movies.csv can hold.
RawTables ==
    { SubSeq(Catalogue, 1, 3),
      [i \in 1 .. 5 |-> Row(i, 2010, <<"D", "r", "a", "m", "a">>, 85, <<"N", "o", "l", "a", "n">>, <<"A", "l", " ", "P", "o", "B", "o", " ", "D", "u">>)] }

\* The states local_data can be in when a process starts.
StartUp ==
    /\ csv \in {NoFile, BadCsv} \cup {File(t) : t \in RawTables}
    /\ \E t \in RawTables :
          /\ cache \in {NoFile, File(t)}
          /\ index \in {NoFile, File(Documents(t))}

InitStore ==
    /\ IdleParser /\ IdleCall
    /\ StartUp
    /\ agents = "not_imported"
    /\ df = NoTable
    /\ vectorstore = NoStore
    /\ query = << >>
    /\ answer = NoAnswer

\* Ingestion and the read path, run from the command line, and the operator
\* deleting what they wrote.
NextStore ==
    \/ \E fault \in Faults : Ingest(fault)
    \/ \E fault \in Faults : GetVectorStore(fault)
    \/ DeleteCache
    \/ DeleteIndex

SpecStore == InitStore /\ [][NextStore]_vars

\* A process that imports services.agents and runs its tools.
NextAgents ==
    \/ \E fault \in Faults : ImportAgents(fault)
    \/ Restart
    \/ Statistics(<<"a", "v", "e", "r", "a", "g", "e", " ", "1", "8", "0", "0", "s", " ", "h", "o", "r", "o", "r">>)
    \/ \E pick \in 1 .. 5, coin \in BOOLEAN : Quiz(pick, coin)
    \/ SearchStart(<<"9", "0", "s", " ", "A", "c", "t", "i", "o", "n", " ", "m", "o", "v", "i", "e", "s">>)
    \/ \E d \in 1 .. 5 : SearchStep(d)
    \/ \E r \in 1 .. 5 : RecommendStart(<<"H", "e", "a", "t">>, r)
    \/ \E d \in 1 .. 5 : RecommendStep(d)

SpecAgents == InitStore /\ [][NextAgents]_vars

\* ------------------------------------------------------------- the parser
ParseAlphabet == {"0", "1", "2", "9", "s", " ", "'", "a"}

Texts == UNION {[1 .. n -> ParseAlphabet] : n \in 0 .. MaxLen}

\* parse_year_range(text) on its own.
ParseYearRange ==
    /\ answer = NoAnswer
    /\ answer' = [kind |-> "parsed", year_range |-> parse_year_range(text)]
    /\ UNCHANGED <<text, csv, cache, index, agents, df, vectorstore, pc, call,
                   query, loop>>

InitParse ==
    /\ text \in Texts
    /\ IdleFiles /\ IdleCall
    /\ agents = "not_imported"
    /\ df = NoTable
    /\ vectorstore = NoStore
    /\ query = << >>
    /\ answer = NoAnswer

NextParse == ParseYearRange

SpecParse == InitParse /\ [][NextParse]_vars

\* ------------------------------------------------------------ properties
\* The last call was the statistics tool and it answered in this mode.
StatsAnswered(kind) == answer.kind = kind /\ query \in StatsQueries

\* Indices of the rows of df that the filters parsed from the query keep.
SubsetIdx ==
    LET g == Parsed[query].genre_filter
        yr == Parsed[query].year_range
    IN {i \in 1 .. Len(df.rows) :
          /\ g # None => Contains(Lower(df.rows[i].genre), g)
          /\ yr # None => (yr[1] <= df.rows[i].year /\ df.rows[i].year <= yr[2])}

RECURSIVE SumRatingAt(_)
SumRatingAt(I) ==
    IF I = {} THEN 0
    ELSE LET i == CHOOSE j \in I : TRUE
         IN df.rows[i].rating + SumRatingAt(I \ {i})

\* C6: in average mode an empty filtered subset is answered with a defined
\* value, never with an undefined number.
C6_AverageOfEmptySubsetDefined ==
    (StatsAnswered("average") /\ SubsetIdx = {}) => answer.avg # "nan"

\* The row of df that a listed row of the answer shows.
RowOf(shown) == CHOOSE i \in 1 .. Len(df.rows) : df.rows[i].title = shown.title

HasWord(w) == Contains(Parsed[query].query_lower, w)

\* C8: the mode follows the keywords; average is the mean of the filtered
\* subset, top is its min(5, size) highest-rated rows in descending order
\* with equal ratings in table order, anything else is its size.
C8_StatisticsModes ==
    (df.loaded /\ query \in StatsQueries /\ answer.kind # "none") =>
        IF HasWord(<<"a", "v", "e", "r", "a", "g", "e">>)
        THEN /\ answer.kind = "average"
             /\ answer.n = Cardinality(SubsetIdx)
             /\ SubsetIdx # {} =>
                    answer.avg = <<SumRatingAt(SubsetIdx), Cardinality(SubsetIdx)>>
        ELSE IF HasWord(<<"h", "i", "g", "h", "e", "s", "t">>) \/ HasWord(<<"b", "e", "s", "t">>) \/ HasWord(<<"t", "o", "p">>)
        THEN LET shown == answer.rows
                 at == [k \in 1 .. Len(shown) |-> RowOf(shown[k])]
                 listed == {at[k] : k \in 1 .. Len(shown)}
             IN /\ answer.kind = "top"
                /\ Len(shown) = Min({5, Cardinality(SubsetIdx)})
                /\ listed \subseteq SubsetIdx
                /\ \A k \in 1 .. Len(shown) :
                      /\ shown[k].rating = df.rows[at[k]].rating
                      /\ shown[k].year = df.rows[at[k]].year
                /\ \A k, l \in 1 .. Len(shown) :
                      k < l => \/ shown[k].rating > shown[l].rating
                               \/ shown[k].rating = shown[l].rating /\ at[k] < at[l]
                /\ \A i \in SubsetIdx \ listed : \A k \in 1 .. Len(shown) :
                      \/ df.rows[i].rating < shown[k].rating
                      \/ df.rows[i].rating = shown[k].rating /\ at[k] < i
        ELSE answer.kind = "count" /\ answer.n = Cardinality(SubsetIdx)

\* Witness of C8: a genre is parsed, more than five rows pass the filters,
\* the top mode lists five of them and two listed rows have the same rating.
C8_Witness ==
    /\ StatsAnswered("top")
    /\ Parsed[query].genre_filter # None
    /\ Cardinality(SubsetIdx) > 5
    /\ Len(answer.rows) = 5
    /\ \E k \in 1 .. 4 : answer.rows[k].rating = answer.rows[k + 1].rating

\* The cast text up to its first comma or its first place where a lower-case
\* letter is followed by an upper-case one.
IsLeadingName(key, cast) ==
    LET n == Len(key)
        breakAt(i) == \/ cast[i] = ","
                      \/ i > 1 /\ cast[i - 1] \in LowerLetters /\ cast[i] \in UpperLetters
    IN /\ n <= Len(cast)
       /\ key = SubSeq(cast, 1, n)
       /\ \A i \in 1 .. n : ~breakAt(i)
       /\ n < Len(cast) => breakAt(n + 1)

QuizAsked == answer.kind \in {"director", "actor"}

QuizRecordSampled ==
    QuizAsked => /\ \E i \in 1 .. Len(df.rows) : df.rows[i] = answer.movie
                 /\ answer.movie.rating >= 70 /\ answer.movie.year >= 2000
                 /\ Len(QuizPool(df.rows)) >= 5

\* C7 as stated: the key is the director for the director question and the
\* first comma-separated name of the cast field for the actor question.
C7_KeyIsFirstCommaName ==
    /\ QuizRecordSampled
    /\ answer.kind = "director" => answer.key = answer.movie.director
    /\ answer.kind = "actor" =>
          LET cast == answer.movie.cast
              commas == {i \in 1 .. Len(cast) : cast[i] = ","}
          IN answer.key = IF commas = {} THEN cast
                          ELSE SubSeq(cast, 1, Min(commas) - 1)

\* C7 amended: for the actor question the key is the first comma-separated
\* name of the cast field after clean_mashed_names, that is the cast text up
\* to its first comma or first lower-case/upper-case letter boundary.
C7_KeyIsLeadingCleanedName ==
    /\ QuizRecordSampled
    /\ answer.kind = "director" => answer.key = answer.movie.director
    /\ answer.kind = "actor" => IsLeadingName(answer.key, answer.movie.cast)

\* Witness of C7: an actor question about a record whose cast has a comma.
C7_Witness ==
    /\ answer.kind = "actor"
    /\ \E i \in 1 .. Len(answer.movie.cast) : answer.movie.cast[i] = ","
    /\ Len(answer.key) > 0

\* The chunks of the loaded store; a store of at most 30 chunks returns all of
\* them to search_movies.
StoredDocs == {vectorstore.docs[d] : d \in DOMAIN vectorstore.docs}

\* The chunk satisfies the filters parsed from the query: it has a year, the
\* year is in the range, and its text contains the genre.
SatisfiesFilters(doc) ==
    LET yr == Parsed[query].year_range
        g == Parsed[query].genre_filter
        y == DocYear(doc.page_content)
    IN /\ yr # None => (y # NoYear /\ yr[1] <= y /\ y <= yr[2])
       /\ g # None => DocHasGenre(doc.page_content, g)

SearchReturned ==
    pc = "idle" /\ query \in SearchQueries /\ answer.kind \in {"found", "none_found"}

\* C1: search_movies lists at most 5 entries of distinct titles that all
\* satisfy the parsed filters; with n < 5 satisfying titles it lists exactly
\* n, and for n = 0 it answers 'No movies found'.
C1_SearchListsOnlyMatches ==
    SearchReturned =>
        LET entries == IF answer.kind = "found" THEN answer.entries ELSE << >>
            n == Cardinality({doc.title : doc \in {c \in StoredDocs : SatisfiesFilters(c)}})
        IN /\ Len(entries) <= 5
           /\ \A k, l \in 1 .. Len(entries) : k # l => entries[k].title # entries[l].title
           /\ \A k \in 1 .. Len(entries) : SatisfiesFilters(entries[k])
           /\ n < 5 => Len(entries) = n
           /\ n = 0 => answer.kind = "none_found"

\* C10: recommend_similar_movies lists at most 5 movies, none with the
\* reference's title, none twice, in the neighbours' order; a lookup that
\* finds nothing is answered with the not-found message alone.
C10_RecommendationsDistinctOrdered ==
    /\ answer.kind = "similar" =>
          LET entries == answer.entries
          IN /\ Len(entries) <= 5
             /\ \A k \in 1 .. Len(entries) :
                   /\ entries[k].doc.title # answer.ref.title
                   /\ entries[k].at \in 1 .. 10
                   /\ entries[k].doc \in StoredDocs
             /\ \A k, l \in 1 .. Len(entries) :
                   k < l => /\ entries[k].doc.title # entries[l].doc.title
                            /\ entries[k].at < entries[l].at
    /\ (pc = "idle" /\ query \in Wanted /\ vectorstore.loaded /\ vectorstore.docs = << >>)
          => answer.kind = "not_found"
    /\ answer.kind = "not_found" => vectorstore.docs = << >>

\* Witness of C10: five movies are listed, a neighbour was skipped before the
\* last of them and a sixth title was left out.
C10_Witness ==
    /\ answer.kind = "similar"
    /\ Len(answer.entries) = 5
    /\ answer.entries[5].at > 5
    /\ Cardinality({doc.title : doc \in StoredDocs} \ {answer.ref.title}) > 5

\* C2: the cache and the index are each absent or whole, whatever fails, and
\* a call that finds the index missing rebuilds it in full.
C2_ArtifactsWholeAndRebuilt ==
    /\ cache.state \in {"absent", "valid"}
    /\ index.state \in {"absent", "valid"}
    /\ (call.op # "none" /\ ~Exists(call.found.index)) =>
          (call.work.builds = 1 /\ index.state = "valid")

\* C3: ingest_movies run with the cache and the index both there reads no CSV,
\* generates no description, builds no index and leaves both files as they were.
C3_IngestWithBothArtifactsDoesNothing ==
    (call.op = "ingest_movies" /\ Exists(call.found.cache) /\ Exists(call.found.index)) =>
        /\ call.work.csv_reads = 0
        /\ call.work.descriptions = 0
        /\ call.work.cache_writes = 0
        /\ call.work.builds = 0
        /\ cache = call.found.cache
        /\ index = call.found.index

\* Witness of C3: ingest_movies has returned from a run that found a whole
\* cache and a whole index.
C3_Witness ==
    /\ call.op = "ingest_movies"
    /\ call.found.cache.state = "valid"
    /\ call.found.index.state = "valid"
    /\ call.outcome = "returned"

\* C4: get_vector_store returns only with the index on disk and loaded; when
\* it found the index missing it ran ingestion once, and the build, first.
\* No call runs ingestion or the load twice.
C4_ReadPathHealsOnce ==
    call.op = "get_vector_store" =>
        /\ call.work.ingest_calls <= 1
        /\ call.work.loads <= 1
        /\ Exists(call.found.index) => call.work.ingest_calls = 0
        /\ call.outcome = "returned" =>
              /\ index.state = "valid"
              /\ call.store = Store(index.content)
              /\ ~Exists(call.found.index) =>
                    /\ call.work.ingest_calls = 1
                    /\ call.work.builds = 1
                    /\ call.work.loads = 1
        /\ (~Exists(call.found.index) /\ ~Exists(call.found.cache)
               /\ csv.state = "absent") =>
              /\ call.outcome = "raised"
              /\ call.work.ingest_calls = 1
              /\ call.work.builds = 0

\* Witness of C4: get_vector_store found neither index nor cache, ingested the
\* raw file, built the index and returned it.
C4_Witness ==
    /\ call.op = "get_vector_store"
    /\ ~Exists(call.found.index) /\ ~Exists(call.found.cache)
    /\ call.outcome = "returned"
    /\ call.work.csv_reads = 1 /\ call.work.builds = 1

\* C5: from every start-up state the four failure conditions of the tools
\* come back as text; none is raised.
C5_ToolFailuresAreText ==
    /\ agents # "import_raised"
    /\ answer.kind # "raised"
    /\ (agents = "imported" /\ ~df.loaded /\ query = <<"a", "v", "e", "r", "a", "g", "e", " ", "1", "8", "0", "0", "s", " ", "h", "o", "r", "o", "r">>)
          => answer.kind = "error"

\* The decade tokens of the text: 2 or 4 digits, then s, as a word of its own.
DecadeTokens ==
    {p \in (1 .. Len(text)) \X {2, 4} : DecadeMatchAt(text, p[1], p[2])}

\* The explicit years 1900-2099 of the text.
ExplicitYears == {i \in 1 .. Len(text) : YearMatchAt(text, i)}

DigitsValue(i, n) == ToInt(SubSeq(text, i, i + n - 1))

\* C9: parse_year_range returns no match, a decade (lo, lo + 9) with lo a
\* multiple of 10 read off a decade token, or (y, y) for an explicit year y
\* in 1900-2099; no match exactly when the text has neither.
C9_DecadeOrYearOrNothing ==
    answer.kind = "parsed" =>
        LET r == answer.year_range
        IN /\ \/ r = None
              \/ \E p \in DecadeTokens :
                    LET lo == IF p[2] = 2 THEN 1900 + DigitsValue(p[1], 2)
                              ELSE DigitsValue(p[1], 4)
                    IN r = <<lo, lo + 9>> /\ lo % 10 = 0
              \/ \E i \in ExplicitYears :
                    LET y == DigitsValue(i, 4)
                    IN r = <<y, y>> /\ 1900 <= y /\ y <= 2099
           /\ r = None <=> (DecadeTokens = {} /\ ExplicitYears = {})

====
